---- MODULE Spec2Model ----
(***************************************************************************)
(* A model of the childprocess library: the live process handle and its    *)
(* lifecycle (childprocess.py, class ChildProcess), the builder and the    *)
(* pipeline composer (ChildProcessBuilder, PipelineBuilder) and the pipe   *)
(* ownership draft (ChildProcess.py, classes _Pipe and ProcessBuilder).    *)
(***************************************************************************)
EXTENDS Integers, Sequences, FiniteSets, TLC

VARIABLES
    hasJobCtl,  \* hasattr(signal, "SIGCONT") / hasattr(signal, "SIGTSTP")
    proc,       \* the ChildProcess object (NoProc before spawn)
    child,      \* the operating system's view of the child
    pc,         \* where the calling thread is inside is_running()
    lastOp,     \* the last library call made on the process
    lastRes,    \* what that call returned or raised
    sent,       \* the signal that call handed to os.kill, or "none"
    nops,       \* number of state-changing calls made so far
    phase,      \* how far the calls so far follow tests.py test_state
    scope       \* position relative to a `with` block over the process

lifeVars == <<hasJobCtl, proc, child, pc, lastOp, lastRes, sent, nops, phase, scope>>

VARIABLES
    builder,    \* a ChildProcessBuilder: its _args, _env, _cwd, _stdin, _stdout, _stderr
    ioProc,     \* the ChildProcess that builder.spawn() returned (NoProc before)
    ioGiven,    \* the stdin, stdout and stderr values spawn() handed to ChildProcess
    ioOp,       \* the last call on the builder or on a stream accessor
    ioRes,      \* what that call returned or raised
    nsets,      \* number of attribute assignments after construction
    leaked      \* children created by a spawn() that then raised

ioVars == <<builder, ioProc, ioGiven, ioOp, ioRes, nsets, leaked>>

VARIABLES
    npipes,     \* number of _Pipe objects made so far (they are 1..npipes)
    pipes,      \* each _Pipe: its _read_owner, _write_owner and _stderr attributes
    pbs,        \* each ProcessBuilder of ChildProcess.py: its state and its three streams
    pbOp,       \* the last constructor or setter call: [op, self, value]
    pbRes,      \* "ok" or the error it raised
    ncalls      \* number of _Pipe(), constructor and setter calls made

pipeVars == <<npipes, pipes, pbs, pbOp, pbRes, ncalls>>

VARIABLES
    pl,         \* a PipelineBuilder: its _commands, env, cwd, stdin, stdout, stderr
    plOp,       \* the last call on the pipeline builder
    plArg,      \* the commands value handed to the constructor or to the setter
    plRes,      \* "ok" or the error that call raised
    plProcs,    \* the list spawn_all() returned (empty before, and when it raised)
    plMade,     \* every ChildProcess spawn_all() got a child created for, in order
    plSent,     \* the <<pid, signal>> pairs spawn_all() handed to os.kill
    nplsets     \* number of assignments to commands after construction

plineVars == <<pl, plOp, plArg, plRes, plProcs, plMade, plSent, nplsets>>

VARIABLES
    snB,        \* a ChildProcessBuilder whose _args and _env are references into snHeap
    snHeap,     \* the list and dict objects: object id -> current contents
    snAlloc,    \* number of objects made so far (their ids are 1..snAlloc)
    snProcs,    \* the processes spawned from snB: the references and cwd each one holds
    snOp,       \* the last call on the builder
    snRes,      \* "ok" or the error that call raised
    nsnops      \* number of calls made on the builder after construction

snapVars == <<snB, snHeap, snAlloc, snProcs, snOp, snRes, nsnops>>

vars == <<lifeVars, ioVars, pipeVars, plineVars, snapVars>>

notLifeVars == <<ioVars, pipeVars, plineVars, snapVars>>
notIoVars == <<lifeVars, pipeVars, plineVars, snapVars>>
notPipeVars == <<lifeVars, ioVars, plineVars, snapVars>>
notPlineVars == <<lifeVars, ioVars, pipeVars, snapVars>>
notSnapVars == <<lifeVars, ioVars, pipeVars, plineVars>>

(***************************************************************************)
(* Bounds                                                                  *)
(***************************************************************************)
MaxOps == 4
MaxSets == 1
MaxPipes == 2
MaxBuilders == 2
MaxCalls == 4
MaxCmds == 3
MaxPlSets == 1
MaxSnOps == 3
MaxObjs == 4
MaxProcs == 2

(***************************************************************************)
(* Values                                                                  *)
(***************************************************************************)
None == "None"
NoProc == [exists |-> FALSE]

Signals == {"SIGTSTP", "SIGCONT", "SIGTERM", "SIGKILL"}

\* The signals a caller can name on the platform: without job control the
\* signal module has neither SIGTSTP nor SIGCONT (nor SIGKILL).
AvailableSignals(jobctl) == IF jobctl THEN Signals ELSE {"SIGTERM"}

\* Exit statuses as Popen reports them.
ExitNatural == "0"
ExitTerm == "-15"
ExitKill == "-9"

(***************************************************************************)
(* The operating system: signal generation and delivery, child exit.       *)
(***************************************************************************)

\* os.kill(pid, sig) on a child c. A child that already exited (a zombie, or
\* reaped) is not affected. SIGCONT resumes at generation and discards
\* pending stop signals; the others are left pending for delivery. On a
\* platform without job control Popen maps SIGTERM to an unconditional
\* TerminateProcess.
OsKill(c, sig, jobctl) ==
    IF c.st = "exited" THEN c
    ELSE IF sig = "SIGCONT"
         THEN [c EXCEPT !.st = "running", !.pend = @ \ {"SIGTSTP"}]
    ELSE IF sig = "SIGTERM" /\ ~jobctl
         THEN [c EXCEPT !.pend = @ \cup {"SIGKILL"}]
    ELSE [c EXCEPT !.pend = @ \cup {sig}]

\* Popen.poll(): returncode once set is kept; otherwise waitpid(WNOHANG).
Poll(rc, c) ==
    IF rc # None THEN rc
    ELSE IF c.st = "exited" THEN c.status ELSE None

\* Popen.send_signal(sig): polls, skips a process known to have died.
\* Yields <<returncode', child', signal handed to os.kill>>.
SendSignal(rc, c, sig, jobctl) ==
    LET rc2 == Poll(rc, c) IN
    IF rc2 # None THEN <<rc2, c, "none">>
    ELSE <<rc2, OsKill(c, sig, jobctl), sig>>

(***************************************************************************)
(* Stream values. A value handed to a stream setter, kept by a builder or   *)
(* handed to Popen is a record [t, v]: t is the kind of the Python value    *)
(* and v the file it refers to (a descriptor number) or, for a string, its  *)
(* length.                                                                 *)
(***************************************************************************)
IoNone == [t |-> "None", v |-> 0]
PIPE == [t |-> "PIPE", v |-> 0]
INHERIT == [t |-> "INHERIT", v |-> 0]
NULL == [t |-> "NULL", v |-> 0]
STDOUT == [t |-> "STDOUT", v |-> 0]
ChildProcessIO == {PIPE, INHERIT, NULL, STDOUT}

Str(n) == [t |-> "str", v |-> n]
File(fd) == [t |-> "file", v |-> fd]
BufferedReader(fd) == [t |-> "bufreader", v |-> fd]
Other == [t |-> "other", v |-> 0]
DevNull == [t |-> "devnull", v |-> 0]
SubprocessPIPE == [t |-> "subprocess.PIPE", v |-> 0]
SubprocessSTDOUT == [t |-> "subprocess.STDOUT", v |-> 0]

\* isinstance(value, io.IOBase): raw files and buffered readers alike.
IsIOBase(x) == x.t \in {"file", "bufreader"}

\* BufferedReader.raw: the unbuffered file under the reader.
Raw(x) == File(x.v)

\* The parent's own descriptors.
SysStdin == File(0)
SysStdout == File(1)
SysStderr == File(2)

(***************************************************************************)
(* ChildProcess._make_stdin/_make_stdout/_make_stderr                      *)
(***************************************************************************)
make_stdin(stdin) ==
    IF stdin = PIPE THEN [flag |-> TRUE, popen |-> SubprocessPIPE, deferred |-> IoNone]
    ELSE IF stdin = INHERIT THEN [flag |-> FALSE, popen |-> SysStdin, deferred |-> IoNone]
    ELSE IF stdin = NULL THEN [flag |-> FALSE, popen |-> DevNull, deferred |-> IoNone]
    ELSE IF IsIOBase(stdin) THEN [flag |-> FALSE, popen |-> stdin, deferred |-> IoNone]
    ELSE [flag |-> TRUE, popen |-> SubprocessPIPE, deferred |-> stdin]

\* _make_stdout that treats only PIPE as readable.
make_stdoutPipeOnly(stdout) ==
    IF stdout = PIPE THEN [flag |-> TRUE, popen |-> SubprocessPIPE]
    ELSE IF stdout = INHERIT THEN [flag |-> FALSE, popen |-> SysStdout]
    ELSE IF stdout = NULL THEN [flag |-> FALSE, popen |-> DevNull]
    ELSE [flag |-> FALSE, popen |-> stdout]

make_stdout(stdout) ==
    IF stdout = PIPE \/ stdout = STDOUT THEN [flag |-> TRUE, popen |-> SubprocessPIPE]
    ELSE IF stdout = INHERIT THEN [flag |-> FALSE, popen |-> SysStdout]
    ELSE IF stdout = NULL THEN [flag |-> FALSE, popen |-> DevNull]
    ELSE [flag |-> FALSE, popen |-> stdout]

make_stderr(stderr) ==
    IF stderr = PIPE THEN [flag |-> TRUE, popen |-> SubprocessPIPE]
    ELSE IF stderr = STDOUT THEN [flag |-> FALSE, popen |-> SubprocessSTDOUT]
    ELSE IF stderr = INHERIT THEN [flag |-> FALSE, popen |-> SysStderr]
    ELSE IF stderr = NULL THEN [flag |-> FALSE, popen |-> DevNull]
    ELSE [flag |-> FALSE, popen |-> stderr]

\* `if deferred_input:` is false for None and for the empty string.
Truthy(x) == ~(x = IoNone \/ (x.t = "str" /\ x.v = 0))

(***************************************************************************)
(* ChildProcess.__init__: the outcome of building a process from the six   *)
(* values. Popen raises for an empty argument vector (IndexError) and for  *)
(* an executable that is not found (FileNotFoundError); Popen's pipe is a  *)
(* binary stream, so writing a str payload to it raises TypeError, after   *)
(* the child was created. Nothing in __init__ closes or flushes the stream *)
(* (stdin_closed is Popen.stdin.closed).                                   *)
(***************************************************************************)
Executables == {"sleep", "echo", "wc"}

\* The process id of the first child the parent creates; later children get
\* the following ids.
FirstPid == 1

PopenOutcome(args) ==
    IF Len(args) = 0 THEN "IndexError"
    ELSE IF args[1] \notin Executables THEN "FileNotFoundError"
    ELSE "ok"

WriteOutcome(deferred) == IF deferred.t = "str" THEN "TypeError" ELSE "ok"

ChildProcessInit(args, env, cwd, stdin, stdout, stderr) ==
    LET i == make_stdin(stdin)
        o == make_stdout(stdout)
        e == make_stderr(stderr)
        launched == PopenOutcome(args)
        wrote == IF Truthy(i.deferred) THEN WriteOutcome(i.deferred) ELSE "ok"
    IN  [ raised |-> IF launched # "ok" THEN launched ELSE wrote,
          created |-> launched = "ok",
          written |-> IF launched = "ok" /\ Truthy(i.deferred) /\ wrote = "ok"
                      THEN i.deferred ELSE IoNone,
          obj |-> [ exists |-> TRUE, pid |-> FirstPid,
                    args |-> args, env |-> env, cwd |-> cwd,
                    is_stopped |-> FALSE, returncode |-> None,
                    stdin_writeable |-> i.flag, stdout_readable |-> o.flag,
                    stderr_readable |-> e.flag, stdin_closed |-> FALSE,
                    popen_stdin |-> i.popen, popen_stdout |-> o.popen,
                    popen_stderr |-> e.popen ] ]

(***************************************************************************)
(* The lifecycle of one process (class ChildProcess).                      *)
(***************************************************************************)
NoChild == [st |-> "none", status |-> None, pend |-> {},
            exitsOnOwn |-> FALSE, honoursTstp |-> FALSE, ignoresTerm |-> FALSE]

Queries == {"is_running", "is_stopped", "is_finished"}

\* tests.py test_state as a monitor: spawn, stop(), start(), terminate(),
\* wait_for_finish(timeout), with state queries anywhere in between. 0 once
\* the calls made have left that script.
PhaseAfter(ph, op) ==
    IF op = "spawn" THEN 1
    ELSE IF op \in Queries THEN ph
    ELSE IF ph = 1 /\ op = "stop" THEN 2
    ELSE IF ph = 2 /\ op = "start" THEN 3
    ELSE IF ph = 3 /\ op = "terminate" THEN 4
    ELSE IF ph = 4 /\ op = "wait_for_finish_timeout" THEN 5
    ELSE 0

\* Bookkeeping common to every call: what was called, what came of it, the
\* signal it handed to the operating system.
Called(op, res, sig) ==
    /\ lastOp' = op
    /\ lastRes' = res
    /\ sent' = sig
    /\ phase' = IF res \in {"OSError", "TimeoutExpired"} THEN 0 ELSE PhaseAfter(phase, op)

Bool(b) == IF b THEN "True" ELSE "False"

Idle == proc.exists /\ pc = "idle"

\* ChildProcessBuilder("sleep 10s").spawn() with the builder's defaults, on a
\* child of any temperament.
spawn ==
    /\ ~proc.exists
    /\ \E own \in BOOLEAN, tstp \in BOOLEAN, ign \in BOOLEAN :
          LET r == ChildProcessInit(<<"sleep", "10s">>, "environ", "cwd", PIPE, PIPE, PIPE) IN
          /\ r.raised = "ok"
          /\ proc' = r.obj
          /\ child' = [st |-> "running", status |-> None, pend |-> {},
                       exitsOnOwn |-> own, honoursTstp |-> tstp, ignoresTerm |-> ign]
    /\ Called("spawn", "ok", "none")
    /\ UNCHANGED <<hasJobCtl, pc, nops, scope>>

\* A platform test that always succeeds.
SupportedAlways(jobctl, sig) == TRUE

\* hasattr(signal, "SIGCONT") in start(), hasattr(signal, "SIGTSTP") in stop().
Supported(jobctl, sig) == sig \in AvailableSignals(jobctl)

\* The flag and signal of start(): the flag is cleared, then SIGCONT is sent.
StartEffect(p, c, jobctl) ==
    LET r == SendSignal(p.returncode, c, "SIGCONT", jobctl) IN
    [proc |-> [p EXCEPT !.is_stopped = FALSE, !.returncode = r[1]],
     child |-> r[2], sent |-> r[3], res |-> "ok"]

start ==
    /\ Idle /\ nops < MaxOps
    /\ IF ~Supported(hasJobCtl, "SIGCONT")
       THEN /\ Called("start", "OSError", "none")
            /\ UNCHANGED <<proc, child>>
       ELSE LET e == StartEffect(proc, child, hasJobCtl) IN
            /\ proc' = e.proc
            /\ child' = e.child
            /\ Called("start", e.res, e.sent)
    /\ nops' = nops + 1
    /\ UNCHANGED <<hasJobCtl, pc, scope>>

\* stop() that sends the signal and forgets the flag.
StopEffectNoFlag(p, c, jobctl) ==
    LET r == SendSignal(p.returncode, c, "SIGTSTP", jobctl) IN
    [proc |-> [p EXCEPT !.returncode = r[1]],
     child |-> r[2], sent |-> r[3], res |-> "ok"]

\* The signal and flag of stop(): SIGTSTP is sent, then the flag is set.
StopEffect(p, c, jobctl) ==
    LET r == SendSignal(p.returncode, c, "SIGTSTP", jobctl) IN
    [proc |-> [p EXCEPT !.is_stopped = TRUE, !.returncode = r[1]],
     child |-> r[2], sent |-> r[3], res |-> "ok"]

stop ==
    /\ Idle /\ nops < MaxOps
    /\ IF ~Supported(hasJobCtl, "SIGTSTP")
       THEN /\ Called("stop", "OSError", "none")
            /\ UNCHANGED <<proc, child>>
       ELSE LET e == StopEffect(proc, child, hasJobCtl) IN
            /\ proc' = e.proc
            /\ child' = e.child
            /\ Called("stop", e.res, e.sent)
    /\ nops' = nops + 1
    /\ UNCHANGED <<hasJobCtl, pc, scope>>

\* terminate() that ignores `force`.
TerminateSignalGraceful(force) == "SIGTERM"

\* Popen.kill() and Popen.terminate(): SIGKILL and SIGTERM where the platform
\* has them; without job control both are TerminateProcess.
TerminateSignal(force) == IF force THEN "SIGKILL" ELSE "SIGTERM"

PopenSignal(sig, jobctl) == IF jobctl THEN sig ELSE "SIGTERM"

terminate ==
    /\ Idle /\ nops < MaxOps
    /\ \E force \in BOOLEAN :
          LET r == SendSignal(proc.returncode, child,
                              PopenSignal(TerminateSignal(force), hasJobCtl), hasJobCtl) IN
          /\ proc' = [proc EXCEPT !.returncode = r[1]]
          /\ child' = r[2]
          /\ Called(IF force THEN "terminate_force" ELSE "terminate", "ok", r[3])
    /\ nops' = nops + 1
    /\ UNCHANGED <<hasJobCtl, pc, scope>>

\* kill(signal) that tracks the suspend and resume signals in the flag.
KillEffectTracks(p, c, sig, jobctl) ==
    LET r == SendSignal(p.returncode, c, sig, jobctl) IN
    [proc |-> [p EXCEPT !.returncode = r[1],
                        !.is_stopped = IF sig = "SIGTSTP" THEN TRUE
                                       ELSE IF sig = "SIGCONT" THEN FALSE ELSE @],
     child |-> r[2], sent |-> r[3]]

\* kill(signal): Popen.send_signal and nothing else.
KillEffect(p, c, sig, jobctl) ==
    LET r == SendSignal(p.returncode, c, sig, jobctl) IN
    [proc |-> [p EXCEPT !.returncode = r[1]], child |-> r[2], sent |-> r[3]]

kill ==
    /\ Idle /\ nops < MaxOps
    /\ \E sig \in AvailableSignals(hasJobCtl) :
          LET e == KillEffect(proc, child, sig, hasJobCtl) IN
          /\ proc' = e.proc
          /\ child' = e.child
          /\ Called("kill", "ok", e.sent)
    /\ nops' = nops + 1
    /\ UNCHANGED <<hasJobCtl, pc, scope>>

\* is_stopped() that reports the flag alone.
IsStoppedFlagOnly(p, c) == p.is_stopped

\* is_finished() that takes a process with the stopped flag set for alive.
IsFinishedUnlessStopped(p, c) == Poll(p.returncode, c) # None /\ ~p.is_stopped

\* is_finished() and is_stopped() as functions of the object and the child.
IsFinished(p, c) == Poll(p.returncode, c) # None

IsStopped(p, c) == ~IsFinished(p, c) /\ p.is_stopped

\* A wait that kills the child when its timeout expires, as subprocess.run does.
WaitEffectKills(p, c, jobctl) ==
    LET rc == Poll(p.returncode, c) IN
    IF rc # None
    THEN [proc |-> [p EXCEPT !.returncode = rc], child |-> c, res |-> "ok", sent |-> "none"]
    ELSE [proc |-> p, child |-> OsKill(c, "SIGKILL", jobctl),
          res |-> "TimeoutExpired", sent |-> "SIGKILL"]

\* Popen.wait(timeout) at the moment it stops waiting: with the child gone it
\* records the exit status and returns, otherwise the timeout has expired.
WaitEffect(p, c, jobctl) ==
    LET rc == Poll(p.returncode, c) IN
    IF rc # None
    THEN [proc |-> [p EXCEPT !.returncode = rc], child |-> c, res |-> "ok", sent |-> "none"]
    ELSE [proc |-> p, child |-> c, res |-> "TimeoutExpired", sent |-> "none"]

\* wait_for_finish(timeout=None) blocks until the child has exited;
\* wait_for_finish(timeout) also ends when the timeout expires first.
wait_for_finish ==
    /\ Idle /\ nops < MaxOps
    /\ \E timed \in BOOLEAN :
          LET e == WaitEffect(proc, child, hasJobCtl) IN
          /\ timed \/ e.res = "ok"
          /\ proc' = e.proc
          /\ child' = e.child
          /\ Called(IF timed THEN "wait_for_finish_timeout" ELSE "wait_for_finish",
                    e.res, e.sent)
    /\ nops' = nops + 1
    /\ UNCHANGED <<hasJobCtl, pc, scope>>

is_finished ==
    /\ Idle
    /\ proc' = [proc EXCEPT !.returncode = Poll(proc.returncode, child)]
    /\ Called("is_finished", Bool(IsFinished(proc, child)), "none")
    /\ UNCHANGED <<hasJobCtl, child, pc, nops, scope>>

is_stopped ==
    /\ Idle
    /\ proc' = [proc EXCEPT !.returncode = Poll(proc.returncode, child)]
    /\ Called("is_stopped", Bool(IsStopped(proc, child)), "none")
    /\ UNCHANGED <<hasJobCtl, child, pc, nops, scope>>

\* is_running() is `not (self.is_finished() or self.is_stopped())`: a first
\* poll, and when that finds the child alive a second poll inside
\* is_stopped(). The child runs on between the two.
is_running_first ==
    /\ Idle
    /\ proc' = [proc EXCEPT !.returncode = Poll(proc.returncode, child)]
    /\ IF IsFinished(proc, child)
       THEN /\ Called("is_running", "False", "none")
            /\ pc' = "idle"
       ELSE /\ Called("is_running", "polling", "none")
            /\ pc' = "is_running"
    /\ UNCHANGED <<hasJobCtl, child, nops, scope>>

is_running_second ==
    /\ proc.exists /\ pc = "is_running"
    /\ proc' = [proc EXCEPT !.returncode = Poll(proc.returncode, child)]
    /\ Called("is_running", Bool(~IsStopped(proc, child)), "none")
    /\ pc' = "idle"
    /\ UNCHANGED <<hasJobCtl, child, nops, scope>>

enter ==
    /\ Idle /\ scope = "none"
    /\ scope' = "in"
    /\ Called("__enter__", "ok", "none")
    /\ UNCHANGED <<hasJobCtl, proc, child, pc, nops>>

\* __exit__ that terminates "non-forcefully", as the class docstring has it.
ExitEffectGraceful(p, c, jobctl) ==
    IF Poll(p.returncode, c) = None
    THEN KillEffect(p, c, "SIGTERM", TRUE)
    ELSE [proc |-> [p EXCEPT !.returncode = Poll(p.returncode, c)],
          child |-> c, sent |-> "none"]

\* __exit__: `if not self.is_finished(): self._popen.kill()`.
ExitEffect(p, c, jobctl) ==
    IF ~IsFinished(p, c)
    THEN KillEffect(p, c, PopenSignal("SIGKILL", jobctl), jobctl)
    ELSE [proc |-> [p EXCEPT !.returncode = Poll(p.returncode, c)],
          child |-> c, sent |-> "none"]

\* Leaving the with block, normally or through an exception; __exit__
\* returns None, so an exception travels on.
exit ==
    /\ Idle /\ scope = "in"
    /\ \E exc \in BOOLEAN :
          LET e == ExitEffect(proc, child, hasJobCtl) IN
          /\ proc' = e.proc
          /\ child' = e.child
          /\ Called("__exit__", IF exc THEN "reraised" ELSE "ok", e.sent)
    /\ scope' = "out"
    /\ UNCHANGED <<hasJobCtl, pc, nops>>

\* The child runs to its end by itself.
child_exits ==
    /\ child.st = "running" /\ child.exitsOnOwn
    /\ child' = [child EXCEPT !.st = "exited", !.status = ExitNatural, !.pend = {}]
    /\ UNCHANGED <<hasJobCtl, proc, pc, lastOp, lastRes, sent, nops, phase, scope>>

\* A pending signal is acted on: SIGKILL whatever the child does, the others
\* only while it runs (a suspended child services nothing but SIGKILL and
\* SIGCONT).
Deliverable(c, sig) ==
    /\ c.st \in {"running", "suspended"}
    /\ sig \in c.pend
    /\ sig = "SIGKILL" \/ c.st = "running"

Deliver(c, sig) ==
    IF sig = "SIGKILL"
    THEN [c EXCEPT !.st = "exited", !.status = ExitKill, !.pend = {}]
    ELSE IF sig = "SIGTERM"
    THEN IF c.ignoresTerm
         THEN [c EXCEPT !.pend = @ \ {sig}]
         ELSE [c EXCEPT !.st = "exited", !.status = ExitTerm, !.pend = {}]
    ELSE IF c.honoursTstp
         THEN [c EXCEPT !.st = "suspended", !.pend = @ \ {sig}]
         ELSE [c EXCEPT !.pend = @ \ {sig}]

os_deliver(sig) ==
    /\ Deliverable(child, sig)
    /\ child' = Deliver(child, sig)
    /\ UNCHANGED <<hasJobCtl, proc, pc, lastOp, lastRes, sent, nops, phase, scope>>

LifeIdle ==
    /\ proc = NoProc
    /\ child = NoChild
    /\ pc = "idle"
    /\ lastOp = "none"
    /\ lastRes = "none"
    /\ sent = "none"
    /\ nops = 0
    /\ phase = 0
    /\ scope = "none"

(***************************************************************************)
(* ChildProcessBuilder: the attribute setters, the constructor and spawn(). *)
(***************************************************************************)
Raised(err) == [ok |-> FALSE, err |-> err, val |-> IoNone]
Stored(v) == [ok |-> TRUE, err |-> "ok", val |-> v]

\* stdin setter.
StdinSet(value) ==
    LET v == IF value = IoNone THEN PIPE ELSE value IN
    IF v.t = "bufreader" THEN Stored(Raw(v))
    ELSE IF v.t = "str" \/ IsIOBase(v) THEN Stored(v)
    ELSE IF v \in ChildProcessIO
         THEN IF v = STDOUT THEN Raised("ValueError") ELSE Stored(v)
    ELSE Raised("TypeError")

\* stdout setter.
StdoutSet(value) ==
    LET v == IF value = IoNone THEN PIPE ELSE value IN
    IF IsIOBase(v) \/ v \in ChildProcessIO THEN Stored(v) ELSE Raised("TypeError")

\* stderr setter.
StderrSet(value) ==
    LET v == IF value = IoNone THEN PIPE ELSE value IN
    IF IsIOBase(v) \/ v \in ChildProcessIO THEN Stored(v) ELSE Raised("TypeError")

\* A command is given as a string, here its words and the blanks between
\* them, as a list of tokens, or as something else. shlex.split keeps the
\* words.
Blank == " "
ShlexSplit(w) == SelectSeq(w, LAMBDA x : x # Blank)

\* args setter: a string is tokenized, a list or tuple is copied token by
\* token, any other value is passed over without an error.
ArgsSet(b, value) ==
    IF value.t = "str" THEN [b EXCEPT !.args = ShlexSplit(value.w), !.has_args = TRUE]
    ELSE IF value.t = "list" THEN [b EXCEPT !.args = value.w, !.has_args = TRUE]
    ELSE b

CmdStr(w) == [t |-> "str", w |-> w]
CmdList(w) == [t |-> "list", w |-> w]
CmdOther == [t |-> "other", w |-> <<>>]

ArgsInputs ==
    { CmdStr(<<"sleep", Blank, "10s">>), CmdStr(<<"nosuch">>), CmdStr(<<Blank>>),
      CmdList(<<"echo", "foo">>), CmdOther }

\* Descriptors of files the caller opened itself.
ExtFd == 7
StdinInputs ==
    { IoNone, PIPE, INHERIT, NULL, STDOUT, Str(0), Str(1),
      File(ExtFd), BufferedReader(ExtFd), Other }
OutputInputs ==
    { IoNone, PIPE, INHERIT, NULL, STDOUT, Str(1), File(ExtFd), Other }

\* ChildProcessBuilder.__init__: the setters in the order args, env, cwd,
\* stdin, stdout, stderr; the first that raises ends the construction.
NewBuilder(args, stdin, stdout, stderr) ==
    LET b0 == [args |-> <<>>, has_args |-> FALSE, env |-> "environ", cwd |-> "cwd",
               stdin |-> IoNone, stdout |-> IoNone, stderr |-> IoNone]
        b1 == ArgsSet(b0, args)
        i == StdinSet(stdin)
        o == StdoutSet(stdout)
        e == StderrSet(stderr)
    IN  [ ok |-> i.ok /\ o.ok /\ e.ok,
          b |-> [b1 EXCEPT !.stdin = i.val, !.stdout = o.val, !.stderr = e.val] ]

\* spawn(): ChildProcess(self.args, self.env, self.cwd, self.stdin,
\* self.stdout, self.stderr). A builder whose args were never set has no
\* _args attribute.
SpawnFrom(b) ==
    IF ~b.has_args
    THEN [raised |-> "AttributeError", created |-> FALSE, written |-> IoNone, obj |-> NoProc]
    ELSE ChildProcessInit(b.args, b.env, b.cwd, b.stdin, b.stdout, b.stderr)

\* The descriptors Popen opens in the parent for the piped streams of child
\* pid: each child has its own three.
PipeFd(pid, stream) ==
    10 + 3 * pid + (IF stream = "stdin" THEN 0 ELSE IF stream = "stdout" THEN 1 ELSE 2)

\* Popen.stdin/stdout/stderr: a stream object for a piped stream, else None.
PopenStream(pid, popenArg, stream) ==
    IF popenArg # SubprocessPIPE THEN IoNone
    ELSE IF stream = "stdin" THEN [t |-> "bufwriter", v |-> PipeFd(pid, stream)]
    ELSE BufferedReader(PipeFd(pid, stream))

\* The stdin, stdout and stderr properties of ChildProcess.
AccessStdin(p) ==
    IF ~p.stdin_writeable THEN Raised("RuntimeError")
    ELSE Stored(PopenStream(p.pid, p.popen_stdin, "stdin"))

AccessStdout(p) ==
    IF ~p.stdout_readable THEN Raised("RuntimeError")
    ELSE Stored(PopenStream(p.pid, p.popen_stdout, "stdout"))

AccessStderr(p) ==
    IF ~p.stderr_readable THEN Raised("RuntimeError")
    ELSE Stored(PopenStream(p.pid, p.popen_stderr, "stderr"))

NoGiven == [stdin |-> IoNone, stdout |-> IoNone, stderr |-> IoNone]
NoBuilder == [args |-> <<>>, has_args |-> FALSE, env |-> "environ", cwd |-> "cwd",
              stdin |-> IoNone, stdout |-> IoNone, stderr |-> IoNone]

IoIdle ==
    /\ builder = NoBuilder
    /\ ioProc = NoProc
    /\ ioGiven = NoGiven
    /\ ioOp = "none"
    /\ ioRes = Stored(IoNone)
    /\ nsets = 0
    /\ leaked = 0

IoCalled(op, res) ==
    /\ ioOp' = op
    /\ ioRes' = res

set_args ==
    /\ nsets < MaxSets
    /\ \E value \in ArgsInputs :
          /\ builder' = ArgsSet(builder, value)
          /\ IoCalled("set_args", Stored(IoNone))
    /\ nsets' = nsets + 1
    /\ UNCHANGED <<ioProc, ioGiven, leaked>>

set_stdin ==
    /\ nsets < MaxSets
    /\ \E value \in StdinInputs :
          LET r == StdinSet(value) IN
          /\ builder' = IF r.ok THEN [builder EXCEPT !.stdin = r.val] ELSE builder
          /\ IoCalled("set_stdin", r)
    /\ nsets' = nsets + 1
    /\ UNCHANGED <<ioProc, ioGiven, leaked>>

set_stdout ==
    /\ nsets < MaxSets
    /\ \E value \in OutputInputs :
          LET r == StdoutSet(value) IN
          /\ builder' = IF r.ok THEN [builder EXCEPT !.stdout = r.val] ELSE builder
          /\ IoCalled("set_stdout", r)
    /\ nsets' = nsets + 1
    /\ UNCHANGED <<ioProc, ioGiven, leaked>>

set_stderr ==
    /\ nsets < MaxSets
    /\ \E value \in OutputInputs :
          LET r == StderrSet(value) IN
          /\ builder' = IF r.ok THEN [builder EXCEPT !.stderr = r.val] ELSE builder
          /\ IoCalled("set_stderr", r)
    /\ nsets' = nsets + 1
    /\ UNCHANGED <<ioProc, ioGiven, leaked>>

io_spawn ==
    /\ ioOp # "spawn" /\ ~ioProc.exists /\ leaked = 0
    /\ LET r == SpawnFrom(builder) IN
          /\ ioProc' = IF r.raised = "ok" THEN r.obj ELSE NoProc
          /\ leaked' = IF r.created /\ r.raised # "ok" THEN leaked + 1 ELSE leaked
          /\ IoCalled("spawn", [ok |-> r.raised = "ok", err |-> r.raised, val |-> r.written])
    /\ ioGiven' = [stdin |-> builder.stdin, stdout |-> builder.stdout,
                   stderr |-> builder.stderr]
    /\ UNCHANGED <<builder, nsets>>

get_stdin ==
    /\ ioProc.exists
    /\ IoCalled("stdin", AccessStdin(ioProc))
    /\ UNCHANGED <<builder, ioProc, ioGiven, nsets, leaked>>

get_stdout ==
    /\ ioProc.exists
    /\ IoCalled("stdout", AccessStdout(ioProc))
    /\ UNCHANGED <<builder, ioProc, ioGiven, nsets, leaked>>

get_stderr ==
    /\ ioProc.exists
    /\ IoCalled("stderr", AccessStderr(ioProc))
    /\ UNCHANGED <<builder, ioProc, ioGiven, nsets, leaked>>

(***************************************************************************)
(* ChildProcessBuilder and the objects it shares: the args list and the    *)
(* env dict are Python objects with an identity, held by reference by the  *)
(* builder and by every process spawned from it.                           *)
(***************************************************************************)
ObjIds == 1..MaxObjs
NoRef == 0

\* An env value is None, a dict (here its KEY=VALUE items) or something else.
EnvNone == [t |-> "None", w |-> <<>>]
EnvDict(w) == [t |-> "dict", w |-> w]
EnvOther == [t |-> "other", w |-> <<>>]

\* dict(os.environ)
Environ == <<"PATH=/bin">>

\* env setter: None stands for a copy of the parent's environment; a dict is
\* copied item by item; anything else raises TypeError.
EnvSet(value) ==
    IF value.t = "None" THEN [ok |-> TRUE, err |-> "ok", val |-> Environ]
    ELSE IF value.t = "dict" THEN [ok |-> TRUE, err |-> "ok", val |-> value.w]
    ELSE [ok |-> FALSE, err |-> "TypeError", val |-> <<>>]

\* os.path.normpath on the paths used here: a trailing slash is dropped.
Normpath(path) == IF path = "/tmp/" THEN "/tmp" ELSE path

\* cwd setter: None stands for os.getcwd(); normpath raises for a value that
\* is no path.
CwdSet(value) ==
    IF value = None THEN [ok |-> TRUE, err |-> "ok", val |-> "cwd"]
    ELSE IF value = "other" THEN [ok |-> FALSE, err |-> "TypeError", val |-> "cwd"]
    ELSE [ok |-> TRUE, err |-> "ok", val |-> Normpath(value)]

EnvInputs == {EnvNone, EnvDict(<<"FOO=bar">>), EnvOther}
CwdInputs == {None, "/tmp", "/tmp/", "other"}

\* The reference spawn() hands to ChildProcess for self.args and self.env,
\* and the one ChildProcess.__init__ keeps: the builder's own object.
SpawnRef(ref) == ref

NoSnBuilder == [args |-> NoRef, env |-> NoRef, cwd |-> "cwd",
                stdin |-> IoNone, stdout |-> IoNone, stderr |-> IoNone]

SnapIdle ==
    /\ snB = NoSnBuilder
    /\ snHeap = [id \in ObjIds |-> <<>>]
    /\ snAlloc = 0
    /\ snProcs = <<>>
    /\ snOp = "none"
    /\ snRes = "ok"
    /\ nsnops = 0

SnCalled(op, res) ==
    /\ snOp' = op
    /\ snRes' = res
    /\ nsnops' = nsnops + 1

\* builder.args = value: a new list object for a string, a list or a tuple.
sn_set_args ==
    /\ nsnops < MaxSnOps /\ snAlloc < MaxObjs
    /\ \E value \in ArgsInputs :
          LET b == ArgsSet([args |-> snHeap[snB.args], has_args |-> TRUE], value) IN
          IF value.t \in {"str", "list"}
          THEN /\ snHeap' = [snHeap EXCEPT ![snAlloc + 1] = b.args]
               /\ snAlloc' = snAlloc + 1
               /\ snB' = [snB EXCEPT !.args = snAlloc + 1]
          ELSE UNCHANGED <<snHeap, snAlloc, snB>>
    /\ SnCalled("set_args", "ok")
    /\ UNCHANGED snProcs

\* builder.env = value: a new dict object.
sn_set_env ==
    /\ nsnops < MaxSnOps /\ snAlloc < MaxObjs
    /\ \E value \in EnvInputs :
          LET r == EnvSet(value) IN
          /\ IF r.ok
             THEN /\ snHeap' = [snHeap EXCEPT ![snAlloc + 1] = r.val]
                  /\ snAlloc' = snAlloc + 1
                  /\ snB' = [snB EXCEPT !.env = snAlloc + 1]
             ELSE UNCHANGED <<snHeap, snAlloc, snB>>
          /\ SnCalled("set_env", r.err)
    /\ UNCHANGED snProcs

\* builder.cwd = value
sn_set_cwd ==
    /\ nsnops < MaxSnOps
    /\ \E value \in CwdInputs :
          LET r == CwdSet(value) IN
          /\ snB' = IF r.ok THEN [snB EXCEPT !.cwd = r.val] ELSE snB
          /\ SnCalled("set_cwd", r.err)
    /\ UNCHANGED <<snHeap, snAlloc, snProcs>>

\* builder.stdin = value
sn_set_stdin ==
    /\ nsnops < MaxSnOps
    /\ \E value \in {NULL, INHERIT, STDOUT} :
          LET r == StdinSet(value) IN
          /\ snB' = IF r.ok THEN [snB EXCEPT !.stdin = r.val] ELSE snB
          /\ SnCalled("set_stdin", r.err)
    /\ UNCHANGED <<snHeap, snAlloc, snProcs>>

\* builder.args.append("-x"): the list the args property returns is the
\* builder's own.
sn_append_arg ==
    /\ nsnops < MaxSnOps
    /\ snHeap' = [snHeap EXCEPT ![snB.args] = Append(@, "-x")]
    /\ SnCalled("args.append", "ok")
    /\ UNCHANGED <<snB, snAlloc, snProcs>>

\* builder.env["BAR"] = "baz", as the env docstring invites.
sn_put_env ==
    /\ nsnops < MaxSnOps
    /\ snHeap' = [snHeap EXCEPT ![snB.env] = Append(@, "BAR=baz")]
    /\ SnCalled("env.__setitem__", "ok")
    /\ UNCHANGED <<snB, snAlloc, snProcs>>

\* builder.spawn(): ChildProcess(self.args, self.env, self.cwd, ...).
sn_spawn ==
    /\ nsnops < MaxSnOps /\ Len(snProcs) < MaxProcs
    /\ LET r == ChildProcessInit(snHeap[snB.args], snHeap[snB.env], snB.cwd,
                                 snB.stdin, snB.stdout, snB.stderr) IN
          /\ snProcs' = IF r.raised = "ok"
                        THEN Append(snProcs, [args |-> SpawnRef(snB.args),
                                              env |-> SpawnRef(snB.env),
                                              cwd |-> r.obj.cwd])
                        ELSE snProcs
          /\ SnCalled("spawn", r.raised)
    /\ UNCHANGED <<snB, snHeap, snAlloc>>

(***************************************************************************)
(* ChildProcess.py: _Pipe and the stream setters of ProcessBuilder.         *)
(***************************************************************************)
PipeIds == 1..MaxPipes
BuilderIds == 1..MaxBuilders
NoOwner == 0

Pipe(p) == [t |-> "pipe", v |-> p]
NewPipe == [read_owner |-> NoOwner, write_owner |-> NoOwner, stderr_attr |-> NoOwner]

\* A read_owner setter without the test against the write owner.
ReadOwnerSetNoSelfCheck(pipe, proc_) ==
    IF pipe.read_owner # NoOwner THEN [ok |-> FALSE, pipe |-> pipe]
    ELSE [ok |-> TRUE, pipe |-> [pipe EXCEPT !.read_owner = proc_]]

\* _Pipe.read_owner setter.
ReadOwnerSet(pipe, proc_) ==
    IF pipe.read_owner # NoOwner THEN [ok |-> FALSE, pipe |-> pipe]
    ELSE IF pipe.write_owner = proc_ THEN [ok |-> FALSE, pipe |-> pipe]
    ELSE [ok |-> TRUE, pipe |-> [pipe EXCEPT !.read_owner = proc_]]

\* _Pipe.write_owner setter.
WriteOwnerSet(pipe, proc_) ==
    IF pipe.write_owner # NoOwner THEN [ok |-> FALSE, pipe |-> pipe]
    ELSE IF pipe.read_owner = proc_ THEN [ok |-> FALSE, pipe |-> pipe]
    ELSE [ok |-> TRUE, pipe |-> [pipe EXCEPT !.write_owner = proc_]]

\* The setters act on the pipes and on one builder; each yields the pipes
\* and the builder after the call and "ok" or the error raised.
Outcome(res, ps, b) == [res |-> res, pipes |-> ps, b |-> b]

\* ProcessBuilder.stdin setter.
PbStdinSet(ps, b, self, value) ==
    IF value.t = "str" THEN Outcome("ok", ps, [b EXCEPT !.stdin = value])
    ELSE IF value.t = "file" THEN Outcome("ok", ps, [b EXCEPT !.stdin = value])
    ELSE IF value.t = "pipe"
         THEN LET r == ReadOwnerSet(ps[value.v], self) IN
              IF r.ok
              THEN Outcome("ok", [ps EXCEPT ![value.v] = r.pipe], [b EXCEPT !.stdin = value])
              ELSE Outcome("RuntimeError", ps, b)
    ELSE Outcome("TypeError", ps, b)

\* ProcessBuilder.stdout setter: ProcessIO.STDOUT and any value of another
\* type are passed over.
PbStdoutSet(ps, b, self, value) ==
    IF value = SubprocessSTDOUT THEN Outcome("ok", ps, b)
    ELSE IF value.t = "file" THEN Outcome("ok", ps, [b EXCEPT !.stdout = value])
    ELSE IF value.t = "pipe"
         THEN LET r == WriteOwnerSet(ps[value.v], self) IN
              IF r.ok
              THEN Outcome("ok", [ps EXCEPT ![value.v] = r.pipe], [b EXCEPT !.stdout = value])
              ELSE Outcome("RuntimeError", ps, b)
    ELSE Outcome("ok", ps, b)

\* ProcessBuilder.stderr setter: for a pipe it sets the pipe's _stderr
\* attribute, not its write owner.
PbStderrSet(ps, b, self, value) ==
    IF value = SubprocessSTDOUT THEN Outcome("ok", ps, [b EXCEPT !.stderr = value])
    ELSE IF value.t = "file" THEN Outcome("ok", ps, [b EXCEPT !.stderr = value])
    ELSE IF value.t = "pipe"
         THEN Outcome("ok", [ps EXCEPT ![value.v].stderr_attr = self],
                      [b EXCEPT !.stderr = value])
    ELSE Outcome("ok", ps, b)

NoPb == [state |-> "none", stdin |-> IoNone, stdout |-> IoNone, stderr |-> IoNone]

\* ProcessBuilder.__init__: a fresh _Pipe for every stream left at None (all
\* made before any setter runs), then the setters for stdin, stdout and
\* stderr in that order. A setter that raises ends the construction; what
\* the earlier setters did to the pipes stays done.
PbInit(ps, n, self, stdin, stdout, stderr) ==
    LET i == IF stdin = IoNone THEN Pipe(n + 1) ELSE stdin
        n1 == IF stdin = IoNone THEN n + 1 ELSE n
        o == IF stdout = IoNone THEN Pipe(n1 + 1) ELSE stdout
        n2 == IF stdout = IoNone THEN n1 + 1 ELSE n1
        e == IF stderr = IoNone THEN Pipe(n2 + 1) ELSE stderr
        n3 == IF stderr = IoNone THEN n2 + 1 ELSE n2
        b0 == [NoPb EXCEPT !.state = "live"]
        r1 == PbStdinSet(ps, b0, self, i)
        r2 == PbStdoutSet(r1.pipes, r1.b, self, o)
        r3 == PbStderrSet(r2.pipes, r2.b, self, e)
        res == IF r1.res # "ok" THEN r1.res ELSE IF r2.res # "ok" THEN r2.res ELSE r3.res
        last == IF r1.res # "ok" THEN r1 ELSE IF r2.res # "ok" THEN r2 ELSE r3
    IN  [ res |-> res, npipes |-> n3, pipes |-> last.pipes,
          b |-> IF res = "ok" THEN r3.b ELSE [NoPb EXCEPT !.state = "dead"] ]

\* What a caller can hand to a stream setter: a pipe that exists, an open
\* file, subprocess.STDOUT, or something of another type.
PbInputs(n) == {Pipe(q) : q \in 1..n} \cup {File(ExtFd), SubprocessSTDOUT, Other}

PipeIdle ==
    /\ npipes = 0
    /\ pipes = [q \in PipeIds |-> NewPipe]
    /\ pbs = [b \in BuilderIds |-> NoPb]
    /\ pbOp = [op |-> "none", self |-> NoOwner, value |-> IoNone]
    /\ pbRes = "ok"
    /\ ncalls = 0

\* The caller makes a pipe of its own: _Pipe().
new_pipe ==
    /\ ncalls < MaxCalls /\ npipes < MaxPipes
    /\ npipes' = npipes + 1
    /\ ncalls' = ncalls + 1
    /\ pbOp' = [op |-> "_Pipe", self |-> NoOwner, value |-> Pipe(npipes + 1)]
    /\ pbRes' = "ok"
    /\ UNCHANGED <<pipes, pbs>>

\* The number of pipes the constructor makes itself. Builders, like pipes,
\* are numbered in the order they are made.
PipesNeeded(i, o, e) == Cardinality({k \in 1..3 : <<i, o, e>>[k] = IoNone})

pb_init ==
    \E self \in BuilderIds, i \in PbInputs(npipes) \cup {IoNone},
       o \in PbInputs(npipes) \cup {IoNone}, e \in PbInputs(npipes) \cup {IoNone} :
        /\ ncalls < MaxCalls
        /\ pbs[self].state = "none" /\ \A other \in 1..(self - 1) : pbs[other].state # "none"
        /\ npipes + PipesNeeded(i, o, e) <= MaxPipes
        /\ ncalls' = ncalls + 1
        /\ LET r == PbInit(pipes, npipes, self, i, o, e) IN
               /\ npipes' = r.npipes
               /\ pipes' = r.pipes
               /\ pbs' = [pbs EXCEPT ![self] = r.b]
               /\ pbOp' = [op |-> "__init__", self |-> self, value |-> i]
               /\ pbRes' = r.res

pb_stdin ==
    \E self \in BuilderIds, value \in PbInputs(npipes) :
        /\ ncalls < MaxCalls /\ pbs[self].state = "live"
        /\ ncalls' = ncalls + 1
        /\ LET r == PbStdinSet(pipes, pbs[self], self, value) IN
               /\ pipes' = r.pipes
               /\ pbs' = [pbs EXCEPT ![self] = r.b]
               /\ pbOp' = [op |-> "stdin", self |-> self, value |-> value]
               /\ pbRes' = r.res
               /\ UNCHANGED npipes

pb_stdout ==
    \E self \in BuilderIds, value \in PbInputs(npipes) :
        /\ ncalls < MaxCalls /\ pbs[self].state = "live"
        /\ ncalls' = ncalls + 1
        /\ LET r == PbStdoutSet(pipes, pbs[self], self, value) IN
               /\ pipes' = r.pipes
               /\ pbs' = [pbs EXCEPT ![self] = r.b]
               /\ pbOp' = [op |-> "stdout", self |-> self, value |-> value]
               /\ pbRes' = r.res
               /\ UNCHANGED npipes

pb_stderr ==
    \E self \in BuilderIds, value \in PbInputs(npipes) :
        /\ ncalls < MaxCalls /\ pbs[self].state = "live"
        /\ ncalls' = ncalls + 1
        /\ LET r == PbStderrSet(pipes, pbs[self], self, value) IN
               /\ pipes' = r.pipes
               /\ pbs' = [pbs EXCEPT ![self] = r.b]
               /\ pbOp' = [op |-> "stderr", self |-> self, value |-> value]
               /\ pbRes' = r.res
               /\ UNCHANGED npipes

(***************************************************************************)
(* PipelineBuilder: the constructor, the commands setter and spawn_all().  *)
(***************************************************************************)
Bar == "|"

\* The commands of a pipeline are given as one string, here its words with
\* the blanks and the pipe characters between them, as a list of commands,
\* or as something else.
PlStr(w) == [t |-> "str", w |-> w]
PlList(w) == [t |-> "list", w |-> w]
PlOther == [t |-> "other", w |-> <<>>]

\* str.split("|"): the pieces between the pipe characters, empty pieces
\* included.
RECURSIVE Split(_)
Split(w) ==
    IF \A k \in 1..Len(w) : w[k] # Bar THEN <<w>>
    ELSE LET k == CHOOSE j \in 1..Len(w) : w[j] = Bar /\ \A h \in 1..(j - 1) : w[h] # Bar
         IN  <<SubSeq(w, 1, k - 1)>> \o Split(SubSeq(w, k + 1, Len(w)))

\* A commands setter that takes any list.
CommandsSetAnyList(value) ==
    LET v == IF value.t = "str"
             THEN PlList([k \in 1..Len(Split(value.w)) |-> CmdStr(Split(value.w)[k])])
             ELSE value
    IN  IF v.t = "list" THEN [ok |-> TRUE, err |-> "ok", val |-> v.w]
        ELSE [ok |-> FALSE, err |-> "TypeError", val |-> <<>>]

\* commands setter.
CommandsSet(value) ==
    LET v == IF value.t = "str"
             THEN PlList([k \in 1..Len(Split(value.w)) |-> CmdStr(Split(value.w)[k])])
             ELSE value
    IN  IF v.t = "list"
        THEN IF Len(v.w) = 0 THEN [ok |-> FALSE, err |-> "ValueError", val |-> <<>>]
             ELSE [ok |-> TRUE, err |-> "ok", val |-> v.w]
        ELSE [ok |-> FALSE, err |-> "TypeError", val |-> <<>>]

\* PipelineBuilder.__init__.
PipelineInit(commands, stdin, stdout, stderr) ==
    LET c == CommandsSet(commands) IN
    [ ok |-> c.ok, err |-> c.err,
      pl |-> [ commands |-> c.val, env |-> "environ", cwd |-> "cwd",
               stdin |-> IF stdin = IoNone THEN PIPE ELSE stdin,
               stdout |-> IF stdout = IoNone THEN PIPE ELSE stdout,
               stderr |-> IF stderr = IoNone THEN PIPE ELSE stderr ] ]

\* builder.spawn() for the child that gets process id pid.
WithPid(r, pid) == IF r.created THEN [r EXCEPT !.obj.pid = pid] ELSE r
SpawnNth(b, pid) == WithPid(SpawnFrom(b), pid)

\* A cursor that follows the error stream of the process just spawned.
NextInputStderr(proc_) == AccessStderr(proc_)

\* next_input = proc.stdout
NextInput(proc_) == AccessStdout(proc_)

\* res.append(proc), for a child that was created.
Appended(made, s) == IF s.created THEN Append(made, s.obj) ELSE made

\* An exception handler that terminates the processes spawned so far.
PlRaiseCleanup(err, b, made) ==
    [ raised |-> err, b |-> b, made |-> made, next_input |-> IoNone,
      sent |-> {<<made[k].pid, "SIGTERM">> : k \in 1..Len(made)} ]

\* An exception inside spawn_all() leaves it at once: there is no handler,
\* the processes spawned so far are left as they are.
PlRaise(err, b, made) ==
    [raised |-> err, b |-> b, made |-> made, next_input |-> IoNone, sent |-> {}]

\* One pass of the loop of spawn_all(), step by step: b is the builder, made
\* the processes spawned so far, i the outcome of the stdin setter, s that
\* of builder.spawn() and out that of proc.stdout.
StageSpawned(b, s, out, made) ==
    IF s.raised # "ok" THEN PlRaise(s.raised, b, Appended(made, s))
    ELSE IF ~out.ok THEN PlRaise(out.err, b, Appended(made, s))
    ELSE [ raised |-> "ok", b |-> b, made |-> Appended(made, s), next_input |-> out.val,
           sent |-> {} ]

StageSpawn(b, s, made) == StageSpawned(b, s, NextInput(s.obj), made)

StageBuilt(b, made) == StageSpawn(b, SpawnNth(b, FirstPid + Len(made)), made)

StageConfigured(b, i, made) ==
    IF ~i.ok THEN PlRaise(i.err, b, made)
    ELSE StageBuilt([b EXCEPT !.stdin = i.val], made)

\* A pass that binds stdin to the stdout pipe of the process spawned after
\* this one.
StageBoundAhead(b, command, next_input, made) ==
    StageConfigured(ArgsSet(b, command),
                    IF Len(made) = 0 THEN StdinSet(next_input)
                    ELSE StdinSet(BufferedReader(PipeFd(FirstPid + Len(made) + 1, "stdout"))),
                    made)

Stage(b, command, next_input, made) ==
    StageConfigured(ArgsSet(b, command), StdinSet(next_input), made)

\* The loop of spawn_all() over commands[:-1]: cmds are the commands still
\* to spawn; a pass that raises ends the loop.
RECURSIVE SpawnStages(_, _, _, _)
StageThen(r, cmds) ==
    IF r.raised # "ok" THEN r ELSE SpawnStages(r.b, cmds, r.next_input, r.made)

SpawnStages(b, cmds, next_input, made) ==
    IF Len(cmds) = 0
    THEN [raised |-> "ok", b |-> b, made |-> made, next_input |-> next_input, sent |-> {}]
    ELSE StageThen(Stage(b, Head(cmds), next_input, made), Tail(cmds))

\* The last command: args, stdin and the pipeline's stdout are set, in that
\* order, then the process is spawned.
LastSpawned(b, s, made) ==
    IF s.raised # "ok" THEN PlRaise(s.raised, b, Appended(made, s))
    ELSE [ raised |-> "ok", b |-> b, made |-> Appended(made, s), next_input |-> IoNone,
           sent |-> {} ]

LastBuilt(b, made) == LastSpawned(b, SpawnNth(b, FirstPid + Len(made)), made)

LastConfigured(b, i, o, made) ==
    IF ~i.ok THEN PlRaise(i.err, b, made)
    ELSE IF ~o.ok THEN PlRaise(o.err, b, made)
    ELSE LastBuilt([b EXCEPT !.stdin = i.val, !.stdout = o.val], made)

LastStage(p, loop) ==
    IF loop.raised # "ok" THEN loop
    ELSE IF Len(p.commands) = 0 THEN PlRaise("IndexError", loop.b, loop.made)
    ELSE LastConfigured(ArgsSet(loop.b, p.commands[Len(p.commands)]),
                        StdinSet(loop.next_input), StdoutSet(p.stdout), loop.made)

\* spawn_all(): the builder with the shared env, cwd and stderr, the loop,
\* then the last command.
WithBuilder(p, nb) ==
    IF ~nb.ok THEN PlRaise(StderrSet(p.stderr).err, nb.b, <<>>)
    ELSE LastStage(p, SpawnStages([nb.b EXCEPT !.env = p.env, !.cwd = p.cwd],
                                  SubSeq(p.commands, 1, Len(p.commands) - 1),
                                  p.stdin, <<>>))

SpawnAll(p) == WithBuilder(p, NewBuilder(CmdList(<<>>), IoNone, IoNone, p.stderr))

\* The single commands a caller puts in a list, and the lists of at most
\* MaxCmds of them.
Cmds == { CmdStr(<<"echo", Blank, "foo">>), CmdList(<<"wc", "-w">>),
          CmdStr(<<"nosuch">>), CmdOther }
CmdLists == UNION {[1..k -> Cmds] : k \in 0..MaxCmds}

\* The commands a pipeline is constructed with, and those assigned to it
\* afterwards.
FirstCommandInputs ==
    { PlStr(<<"echo", Blank, "foo", Bar, "wc">>), PlStr(<<"echo", Bar, "wc", Bar, "wc">>),
      PlStr(<<"wc", Bar>>), PlStr(<<"sleep">>), PlList(<<CmdList(<<"wc", "-w">>)>>),
      PlList(<<>>), PlOther }

CommandInputs == {PlList(w) : w \in CmdLists} \cup FirstCommandInputs

PlStdinInputs ==
    {IoNone, INHERIT, NULL, STDOUT, Str(0), Str(1), File(ExtFd), BufferedReader(ExtFd), Other}
PlStdoutInputs == {IoNone, INHERIT, NULL, STDOUT, File(ExtFd), Other}
PlStderrInputs == {IoNone, STDOUT, Other}

NoPipeline == [commands |-> <<>>, env |-> "environ", cwd |-> "cwd",
               stdin |-> IoNone, stdout |-> IoNone, stderr |-> IoNone]

PlIdle ==
    /\ pl = NoPipeline
    /\ plOp = "none"
    /\ plArg = PlOther
    /\ plRes = "ok"
    /\ plProcs = <<>>
    /\ plMade = <<>>
    /\ plSent = {}
    /\ nplsets = 0

\* pipeline.commands = value
pl_commands ==
    /\ plOp # "spawn_all" /\ nplsets < MaxPlSets
    /\ \E value \in CommandInputs :
          LET r == CommandsSet(value) IN
          /\ pl' = IF r.ok THEN [pl EXCEPT !.commands = r.val] ELSE pl
          /\ plRes' = r.err
          /\ plArg' = value
    /\ plOp' = "commands"
    /\ nplsets' = nplsets + 1
    /\ UNCHANGED <<plProcs, plMade, plSent>>

\* What the caller of spawn_all() gets: the list, or the error.
SpawnAllReturns(r) ==
    /\ plProcs' = IF r.raised = "ok" THEN r.made ELSE <<>>
    /\ plMade' = r.made
    /\ plSent' = r.sent
    /\ plRes' = r.raised

\* pipeline.spawn_all()
pl_spawn_all ==
    /\ plOp # "spawn_all"
    /\ SpawnAllReturns(SpawnAll(pl))
    /\ plOp' = "spawn_all"
    /\ UNCHANGED <<pl, plArg, nplsets>>

(***************************************************************************)
(* The lifecycle specification: one process, the calls on it and the       *)
(* operating system's steps.                                               *)
(***************************************************************************)
Init ==
    /\ hasJobCtl \in BOOLEAN
    /\ LifeIdle
    /\ IoIdle
    /\ PipeIdle
    /\ PlIdle
    /\ SnapIdle

Next ==
    \/ spawn /\ UNCHANGED notLifeVars
    \/ start /\ UNCHANGED notLifeVars
    \/ stop /\ UNCHANGED notLifeVars
    \/ terminate /\ UNCHANGED notLifeVars
    \/ kill /\ UNCHANGED notLifeVars
    \/ wait_for_finish /\ UNCHANGED notLifeVars
    \/ is_finished /\ UNCHANGED notLifeVars
    \/ is_stopped /\ UNCHANGED notLifeVars
    \/ is_running_first /\ UNCHANGED notLifeVars
    \/ is_running_second /\ UNCHANGED notLifeVars
    \/ enter /\ UNCHANGED notLifeVars
    \/ exit /\ UNCHANGED notLifeVars
    \/ child_exits /\ UNCHANGED notLifeVars
    \/ \E sig \in Signals : os_deliver(sig) /\ UNCHANGED notLifeVars

Spec == Init /\ [][Next]_vars

\* The kernel acts on a pending signal it can act on.
FairSpec == Spec /\ \A sig \in Signals : WF_vars(os_deliver(sig) /\ UNCHANGED notLifeVars)

(***************************************************************************)
(* The builder specification: one ChildProcessBuilder, the assignments to  *)
(* its attributes, one spawn() and the accessors of the spawned process.   *)
(***************************************************************************)
\* A builder as its constructor leaves it, for every choice of arguments it
\* accepts.
InitIO ==
    /\ hasJobCtl = TRUE
    /\ LifeIdle
    /\ \E a \in ArgsInputs, i \in StdinInputs, o \in OutputInputs, e \in OutputInputs :
          /\ NewBuilder(a, i, o, e).ok
          /\ builder = NewBuilder(a, i, o, e).b
    /\ ioProc = NoProc
    /\ ioGiven = NoGiven
    /\ ioOp = "none"
    /\ ioRes = Stored(IoNone)
    /\ nsets = 0
    /\ leaked = 0
    /\ PipeIdle
    /\ PlIdle
    /\ SnapIdle

NextIO ==
    \/ set_args /\ UNCHANGED notIoVars
    \/ set_stdin /\ UNCHANGED notIoVars
    \/ set_stdout /\ UNCHANGED notIoVars
    \/ set_stderr /\ UNCHANGED notIoVars
    \/ io_spawn /\ UNCHANGED notIoVars
    \/ get_stdin /\ UNCHANGED notIoVars
    \/ get_stdout /\ UNCHANGED notIoVars
    \/ get_stderr /\ UNCHANGED notIoVars

SpecIO == InitIO /\ [][NextIO]_vars

(***************************************************************************)
(* The pipe ownership specification: the builders and pipes of             *)
(* ChildProcess.py.                                                        *)
(***************************************************************************)
InitPipe ==
    /\ hasJobCtl = TRUE
    /\ LifeIdle
    /\ IoIdle
    /\ PipeIdle
    /\ PlIdle
    /\ SnapIdle

NextPipe ==
    \/ new_pipe /\ UNCHANGED notPipeVars
    \/ pb_init /\ UNCHANGED notPipeVars
    \/ pb_stdin /\ UNCHANGED notPipeVars
    \/ pb_stdout /\ UNCHANGED notPipeVars
    \/ pb_stderr /\ UNCHANGED notPipeVars

SpecPipe == InitPipe /\ [][NextPipe]_vars

(***************************************************************************)
(* The pipeline specification: one PipelineBuilder as its constructor      *)
(* leaves it, for every choice of arguments it accepts, assignments to its *)
(* commands and one spawn_all().                                           *)
(***************************************************************************)
InitPipeline ==
    /\ hasJobCtl = TRUE
    /\ LifeIdle
    /\ IoIdle
    /\ PipeIdle
    /\ \E c \in FirstCommandInputs, i \in PlStdinInputs, o \in PlStdoutInputs, e \in PlStderrInputs :
          /\ PipelineInit(c, i, o, e).ok
          /\ pl = PipelineInit(c, i, o, e).pl
          /\ plArg = c
    /\ SnapIdle
    /\ plOp = "none"
    /\ plRes = "ok"
    /\ plProcs = <<>>
    /\ plMade = <<>>
    /\ plSent = {}
    /\ nplsets = 0

NextPipeline ==
    \/ pl_commands /\ UNCHANGED notPlineVars
    \/ pl_spawn_all /\ UNCHANGED notPlineVars

SpecPipeline == InitPipeline /\ [][NextPipeline]_vars

(***************************************************************************)
(* The sharing specification: one ChildProcessBuilder constructed from a   *)
(* command, with the other arguments left at their defaults, the changes   *)
(* made to it and the processes spawned from it.                           *)
(***************************************************************************)
InitSnap ==
    /\ hasJobCtl = TRUE
    /\ LifeIdle
    /\ IoIdle
    /\ PipeIdle
    /\ PlIdle
    /\ \E a \in {CmdStr(<<"sleep", Blank, "10s">>), CmdList(<<"echo", "foo">>)} :
          snHeap = [id \in ObjIds |->
                      IF id = 1 THEN NewBuilder(a, IoNone, IoNone, IoNone).b.args
                      ELSE IF id = 2 THEN EnvSet(EnvNone).val ELSE <<>>]
    /\ snAlloc = 2
    /\ snB = [ args |-> 1, env |-> 2, cwd |-> CwdSet(None).val,
               stdin |-> StdinSet(IoNone).val, stdout |-> StdoutSet(IoNone).val,
               stderr |-> StderrSet(IoNone).val ]
    /\ snProcs = <<>>
    /\ snOp = "none"
    /\ snRes = "ok"
    /\ nsnops = 0

NextSnap ==
    \/ sn_set_args /\ UNCHANGED notSnapVars
    \/ sn_set_env /\ UNCHANGED notSnapVars
    \/ sn_set_cwd /\ UNCHANGED notSnapVars
    \/ sn_set_stdin /\ UNCHANGED notSnapVars
    \/ sn_append_arg /\ UNCHANGED notSnapVars
    \/ sn_put_env /\ UNCHANGED notSnapVars
    \/ sn_spawn /\ UNCHANGED notSnapVars

SpecSnap == InitSnap /\ [][NextSnap]_vars

(***************************************************************************)
(* Properties of the lifecycle                                             *)
(***************************************************************************)

\* A child as test_state's `sleep 10s`: it does not exit on its own, and it
\* honours suspend, resume and graceful termination.
Cooperative ==
    /\ hasJobCtl
    /\ ~child.exitsOnOwn /\ child.honoursTstp /\ ~child.ignoresTerm

\* What the three state queries return (or would return) in this state.
Answers(run, stp, fin) ==
    /\ ~(IsFinished(proc, child) \/ IsStopped(proc, child)) = run
    /\ IsStopped(proc, child) = stp
    /\ IsFinished(proc, child) = fin
    /\ lastOp = "is_running" /\ lastRes # "polling" => lastRes = Bool(run)
    /\ lastOp = "is_stopped" => lastRes = Bool(stp)
    /\ lastOp = "is_finished" => lastRes = Bool(fin)

\* C1: for a cooperative child, the queries answer Running right after
\* spawn(), Stopped after stop(), Running again after a following start(),
\* and Finished after terminate() and a wait_for_finish(timeout) that
\* returned.
C1_LifecycleRoundTrip ==
    (proc.exists /\ Cooperative) =>
        /\ phase = 1 => Answers(TRUE, FALSE, FALSE)
        /\ phase = 2 => Answers(FALSE, TRUE, FALSE)
        /\ phase = 3 => Answers(TRUE, FALSE, FALSE)
        /\ phase = 5 => Answers(FALSE, FALSE, TRUE)

C1_Witness ==
    /\ proc.exists /\ Cooperative
    /\ phase = 5 /\ lastOp = "is_finished" /\ lastRes = "True"
    /\ child.status = ExitTerm

\* C3: a wait_for_finish(timeout) that expires raises the timeout error and
\* changes nothing (no signal, same child, same stopped flag, a running
\* process still answers is_running); a wait_for_finish() without timeout
\* returns only with the child gone, and can return as soon as it is gone.
C3_TimeoutChangesNothing ==
    /\ [][ (nops' = nops + 1 /\ lastOp' = "wait_for_finish_timeout"
                /\ ~IsFinished(proc, child))
            => /\ lastRes' = "TimeoutExpired"
               /\ sent' = "none"
               /\ child' = child
               /\ proc'.is_stopped = proc.is_stopped
               /\ IsFinished(proc', child') = IsFinished(proc, child)
               /\ IsStopped(proc', child') = IsStopped(proc, child) ]_vars
    /\ [][ (nops' = nops + 1 /\ lastOp' = "wait_for_finish")
            => /\ child.st = "exited"
               /\ lastRes' = "ok"
               /\ IsFinished(proc', child') ]_vars
    /\ [](proc.exists /\ child.st = "exited"
            => WaitEffect(proc, child, hasJobCtl).res = "ok")

C3_Witness ==
    /\ lastOp = "wait_for_finish_timeout" /\ lastRes = "TimeoutExpired"
    /\ child.st = "running" /\ ~proc.is_stopped
    /\ ~(IsFinished(proc, child) \/ IsStopped(proc, child))

C8_StartNotStoppedIsError ==
    [][ (nops' = nops + 1 /\ lastOp' = "start" /\ hasJobCtl /\ ~IsStopped(proc, child))
        => lastRes' = "LogicError" /\ sent' = "none" ]_vars

\* C9: once the child has exited, is_stopped() answers false and
\* is_finished() answers true, also when the child exited with the stopped
\* flag set and when stop() came after the exit.
C9_ExitedIsNotStopped ==
    (proc.exists /\ child.st = "exited") =>
        /\ ~IsStopped(proc, child)
        /\ IsFinished(proc, child)
        /\ lastOp = "is_stopped" /\ proc.returncode # None => lastRes = "False"
        /\ lastOp = "is_finished" /\ proc.returncode # None => lastRes = "True"

C9_Witness ==
    /\ proc.exists /\ child.st = "exited"
    /\ lastOp = "stop" /\ sent = "none" /\ proc.is_stopped

\* C10: after terminate(force=True) on a Running or Stopped process the
\* child reaches Finished and a wait_for_finish() returns, whatever the
\* child does with termination requests and with no start() needed.
C10_ForceTerminates ==
    (proc.exists /\ lastOp = "terminate_force")
        ~> (child.st = "exited" /\ IsFinished(proc, child)
                /\ WaitEffect(proc, child, hasJobCtl).res = "ok")

C10_Witness ==
    /\ lastOp = "terminate_force" /\ sent = "SIGKILL"
    /\ child.st = "exited" /\ child.status = ExitKill
    /\ child.ignoresTerm /\ proc.is_stopped /\ child.honoursTstp

\* The step is a call of op that counts as an operation.
Did(op) == nops' = nops + 1 /\ lastOp' = op

\* C11: on a platform without SIGTSTP and SIGCONT, stop() and start() raise
\* OSError, hand no signal to the operating system and leave the process
\* object, its stopped flag included, and the child as they were.
C11_NoPlatformSupport ==
    [][ (~hasJobCtl /\ (Did("stop") \/ Did("start"))) =>
            /\ lastRes' = "OSError"
            /\ sent' = "none"
            /\ proc'.is_stopped = proc.is_stopped
            /\ proc' = proc
            /\ child' = child ]_vars

C11_Witness ==
    /\ ~hasJobCtl /\ proc.exists
    /\ lastOp = "stop" /\ lastRes = "OSError" /\ sent = "none"
    /\ child.st = "running" /\ child.pend = {}

\* C18: kill(signal) hands the signal to the operating system unless the
\* child is already known to be gone, and leaves the stopped flag alone,
\* whatever the signal; the flag changes only in stop(), which sets it, and
\* in start(), which clears it.
C18_OnlyStopAndStartSetFlag ==
    /\ [][ Did("kill") =>
              /\ proc'.is_stopped = proc.is_stopped
              /\ sent' \in AvailableSignals(hasJobCtl) \cup {"none"}
              /\ sent' = "none" <=> IsFinished(proc, child) ]_vars
    /\ [][ (proc.exists /\ proc'.is_stopped # proc.is_stopped) =>
              \/ Did("stop") /\ proc'.is_stopped
              \/ Did("start") /\ ~proc'.is_stopped ]_vars

C18_Witness ==
    /\ lastOp = "kill" /\ sent = "SIGTSTP"
    /\ proc.exists /\ ~proc.is_stopped
    /\ child.st = "suspended"

\* The last call was terminate() without force on a process that was
\* Stopped (not finished, stopped flag set), and the child has not exited.
TerminateAwaitsStart ==
    /\ proc.exists /\ lastOp = "terminate" /\ sent = "SIGTERM"
    /\ proc.is_stopped
    /\ child.st # "exited"

\* C19: after terminate() without force on a Stopped process, and before any
\* start(), the child does not exit through that termination request.
C19_StoppedDefersTerminate ==
    [][ TerminateAwaitsStart => ~(child'.st = "exited" /\ child'.status = ExitTerm) ]_vars

\* C22: once the exit status of the child has been recorded (is_finished()
\* has returned true), every further call leaves the recorded status as it
\* is and sends nothing to the child; is_finished() answers true,
\* is_running() and is_stopped() answer false and exit_code is unchanged,
\* whatever stop(), start(), kill(), terminate(), wait_for_finish() and the
\* scope exit did to the stopped flag.
C22_FinishedIsAbsorbing ==
    [][ (proc.exists /\ proc.returncode # None) =>
            /\ proc'.returncode = proc.returncode
            /\ Poll(proc'.returncode, child') = proc.returncode
            /\ child' = child
            /\ sent' = "none"
            /\ pc' = "idle"
            /\ IsFinished(proc', child')
            /\ ~IsStopped(proc', child')
            /\ lastOp' = "is_finished" => lastRes' = "True"
            /\ lastOp' = "is_stopped" => lastRes' = "False"
            /\ lastOp' = "is_running" => lastRes' = "False" ]_vars

C22_Witness ==
    /\ proc.exists /\ proc.returncode # None /\ proc.is_stopped
    /\ lastOp = "is_finished" /\ lastRes = "True"
    /\ nops >= 2

\* C24: for a cooperative child with no signal still on its way, the
\* tracked state agrees with the state of the child: is_stopped() is true
\* only of a suspended child and is_running() only of one that is not
\* suspended, after any calls of stop(), start(), kill() and terminate().
C24_TrackedStateIsOsState ==
    (proc.exists /\ Cooperative /\ child.pend = {}) =>
        /\ IsStopped(proc, child) => child.st = "suspended"
        /\ ~(IsFinished(proc, child) \/ IsStopped(proc, child)) => child.st # "suspended"

\* C25: an is_running() that returns true was made on a process whose
\* stopped flag is clear; the child was alive at its first poll, so a child
\* that exits before the second poll with the flag set is not reported as
\* running.
C25_RunningIsOneObservation ==
    [][ (pc = "is_running" /\ pc' = "idle" /\ lastRes' = "True") => ~proc.is_stopped ]_vars

(***************************************************************************)
(* Properties of the builder and of the stream accessors                   *)
(***************************************************************************)

IsHandle(r) == r.ok /\ r.val.t \in {"bufwriter", "bufreader"}
IsAccessError(r) == ~r.ok /\ r.err = "RuntimeError"

\* An accessor's answer r is a handle when `has` and the access error when not.
HandleIff(r, has) == IF has THEN IsHandle(r) ELSE IsAccessError(r)

\* C7: on a spawned process the stdin accessor yields a handle exactly when
\* stdin was PIPE or a string, the stdout accessor exactly when stdout was
\* PIPE or STDOUT, the stderr accessor exactly when stderr was PIPE; in every
\* other case the accessor raises the access error, and spawn() did not fail
\* for that disposition.
C7_AccessorAvailability ==
    /\ ioProc.exists =>
          /\ HandleIff(AccessStdin(ioProc), ioGiven.stdin.t \in {"PIPE", "str"})
          /\ HandleIff(AccessStdout(ioProc), ioGiven.stdout.t \in {"PIPE", "STDOUT"})
          /\ HandleIff(AccessStderr(ioProc), ioGiven.stderr.t = "PIPE")
          /\ ioOp = "stdin" => HandleIff(ioRes, ioGiven.stdin.t \in {"PIPE", "str"})
          /\ ioOp = "stdout" => HandleIff(ioRes, ioGiven.stdout.t \in {"PIPE", "STDOUT"})
          /\ ioOp = "stderr" => HandleIff(ioRes, ioGiven.stderr.t = "PIPE")
    /\ (ioOp = "spawn" /\ ~ioRes.ok) =>
          \/ ~builder.has_args
          \/ PopenOutcome(builder.args) # "ok"
          \/ builder.stdin.t = "str"

C7_Witness ==
    /\ ioProc.exists
    /\ ioGiven.stdin = File(ExtFd) /\ ioGiven.stdout = STDOUT /\ ioGiven.stderr = STDOUT
    /\ ioOp = "stderr" /\ IsAccessError(ioRes)
    /\ IsHandle(AccessStdout(ioProc)) /\ IsAccessError(AccessStdin(ioProc))

\* The number of characters of a payload that reached the child's stdin pipe.
Reached(written) == IF written.t = "str" THEN written.v ELSE 0

\* C15: a spawn() of a command that can be launched, from a builder whose
\* stdin is a string, returns a process,
\* the whole string has been written to the child's stdin pipe and the
\* write end of that pipe is closed.
C15_PayloadWrittenThenClosed ==
    (/\ ioOp = "spawn" /\ ioGiven.stdin.t = "str"
     /\ builder.has_args /\ PopenOutcome(builder.args) = "ok") =>
        /\ ioRes.ok /\ ioProc.exists
        /\ Reached(ioRes.val) = ioGiven.stdin.v
        /\ ioProc.stdin_closed

\* C16: ChildProcessIO.STDOUT is never a builder's stdin or stdout, whether
\* given to the constructor or assigned later: the assignment raises and
\* the stream keeps its value, so no spawn() hands STDOUT to a process as
\* its stdin or its stdout.
C16_StdoutOnlyForStderr ==
    /\ builder.stdin # STDOUT
    /\ builder.stdout # STDOUT
    /\ ioOp = "spawn" => (ioGiven.stdin # STDOUT /\ ioGiven.stdout # STDOUT)

\* C21: a builder never holds an empty argument vector (the args setter
\* rejects a value that yields no token), and no spawn() hands an empty
\* argument vector to the process creation.
C21_NeverEmptyArgs ==
    /\ builder.has_args => Len(builder.args) > 0
    /\ ioOp = "spawn" => ioRes.err # "IndexError"

\* C23: spawn() either returns the process object of the child it created,
\* or raises with no child created: no child is left running without an
\* object the caller holds.
C23_SpawnAllOrNothing ==
    /\ leaked = 0
    /\ ioOp = "spawn" => (ioRes.ok <=> ioProc.exists)

(***************************************************************************)
(* Properties of pipe ownership                                            *)
(***************************************************************************)

Live(b) == pbs[b].state = "live"

\* The builders whose current stdin is pipe q, and those whose current
\* stdout or stderr is pipe q.
Readers(q) == {b \in BuilderIds : Live(b) /\ pbs[b].stdin = Pipe(q)}
Writers(q) == {b \in BuilderIds : Live(b) /\ (pbs[b].stdout = Pipe(q) \/ pbs[b].stderr = Pipe(q))}

\* The call just made was `builder.<stream> = <a pipe>`.
AssignedPipe(stream) ==
    /\ ncalls' = ncalls + 1
    /\ pbOp'.op = stream
    /\ pbOp'.value.t = "pipe"

Rejected ==
    /\ pbRes' = "RuntimeError"
    /\ pipes' = pipes
    /\ pbs' = pbs

\* C5: binding a builder's stdin to the pipe that is its own stdout raises
\* the ownership error, and so does giving a pipe a second reader (stdin
\* setter) or a second writer (stdout setter); a rejected call leaves pipes
\* and builder as they were, and an owner once assigned is never replaced.
C5_OwnershipRejected ==
    /\ [][ (AssignedPipe("stdin")
              /\ \/ pbs[pbOp'.self].stdout = pbOp'.value
                 \/ pipes[pbOp'.value.v].read_owner # NoOwner)
            => Rejected ]_vars
    /\ [][ (AssignedPipe("stdout") /\ pipes[pbOp'.value.v].write_owner # NoOwner)
            => Rejected ]_vars
    /\ [][ \A q \in PipeIds :
              /\ pipes[q].read_owner # NoOwner => pipes'[q].read_owner = pipes[q].read_owner
              /\ pipes[q].write_owner # NoOwner => pipes'[q].write_owner = pipes[q].write_owner
         ]_vars

C5_Witness ==
    /\ pbOp.op = "stdin" /\ pbRes = "RuntimeError"
    /\ pbOp.value.t = "pipe"
    /\ pbs[pbOp.self].stdout = pbOp.value
    /\ pipes[pbOp.value.v].read_owner = NoOwner
    /\ pipes[pbOp.value.v].write_owner = pbOp.self

\* C6: every pipe has at most one builder reading from it and at most one
\* builder writing to it (through stdout or stderr), and no builder both
\* reads and writes the same pipe.
C6_ExclusiveOwnership ==
    \A q \in PipeIds :
        /\ Cardinality(Readers(q)) <= 1
        /\ Cardinality(Writers(q)) <= 1
        /\ Readers(q) \cap Writers(q) = {}

\* Builder a's output is builder b's input: the stdout of a is a pipe that is
\* the stdin of b.
Feeds(a, b) ==
    /\ Live(a) /\ Live(b)
    /\ \E q \in PipeIds : pbs[a].stdout = Pipe(q) /\ pbs[b].stdin = Pipe(q)

\* Output of a reaches b through at most n such links.
RECURSIVE FeedsWithin(_, _, _)
FeedsWithin(a, b, n) ==
    \/ a = b
    \/ n > 0 /\ \E c \in BuilderIds : Feeds(a, c) /\ FeedsWithin(c, b, n - 1)

\* Binding the stdin of builder self to pipe q would close a cycle: the
\* builder whose stdout is q reads, directly or through others, what self
\* writes.
ClosesCycle(self, q) ==
    \E w \in BuilderIds :
        /\ Live(w) /\ pbs[w].stdout = Pipe(q)
        /\ FeedsWithin(self, w, MaxBuilders)

\* C20: a stdin binding that would close a cycle of builders, each reading
\* the output of the next, is rejected with the ownership error, whatever
\* the length of the cycle.
C20_EveryCycleRejected ==
    [][ (AssignedPipe("stdin") /\ Live(pbOp'.self) /\ ClosesCycle(pbOp'.self, pbOp'.value.v))
            => Rejected ]_vars

\* C26: a constructed builder is the read owner of a pipe exactly when that
\* pipe is its current stdin, and the write owner exactly when it is its
\* current stdout: a pipe a builder no longer uses has been released.
C26_OwnershipMirrorsBuilders ==
    \A b \in BuilderIds, q \in PipeIds :
        Live(b) =>
            /\ pipes[q].read_owner = b <=> pbs[b].stdin = Pipe(q)
            /\ pipes[q].write_owner = b <=> pbs[b].stdout = Pipe(q)

(***************************************************************************)
(* Properties of the pipeline                                              *)
(***************************************************************************)

\* The argument vector a command stands for.
Tokens(command) == IF command.t = "str" THEN ShlexSplit(command.w) ELSE command.w

\* Every command is a string or a list of tokens.
AreCommands(cmds) == \A k \in 1..Len(cmds) : cmds[k].t \in {"str", "list"}

\* What Popen was handed for a stream is what `configured` asks for: a new
\* pipe, the parent's own stream, the null device or the caller's file.
Configured(popenArg, configured, inherited) ==
    IF configured.t \in {"None", "PIPE", "STDOUT", "str"} THEN popenArg = SubprocessPIPE
    ELSE IF configured = INHERIT THEN popenArg = inherited
    ELSE IF configured = NULL THEN popenArg = DevNull
    ELSE popenArg.t = "file" /\ popenArg.v = configured.v

\* C2: a spawn_all() that returns gives one process per command, in command
\* order; the first reads the pipeline's stdin, every later one reads the
\* stdout pipe of the one before it, every one but the last writes to a new
\* pipe and the last writes to the pipeline's stdout.
C2_PipelineWiring ==
    (plOp = "spawn_all" /\ plRes = "ok" /\ AreCommands(pl.commands)) =>
        LET n == Len(pl.commands) IN
        /\ n >= 1 /\ Len(plProcs) = n
        /\ \A k \in 1..n : plProcs[k].exists /\ plProcs[k].args = Tokens(pl.commands[k])
        /\ \A k, h \in 1..n : k # h => plProcs[k].pid # plProcs[h].pid
        /\ Configured(plProcs[1].popen_stdin, pl.stdin, SysStdin)
        /\ \A k \in 2..n :
              /\ plProcs[k].popen_stdin = File(PipeFd(plProcs[k - 1].pid, "stdout"))
              /\ AccessStdout(plProcs[k - 1]) = Stored(BufferedReader(plProcs[k].popen_stdin.v))
        /\ \A k \in 1..(n - 1) :
              plProcs[k].popen_stdout = SubprocessPIPE /\ plProcs[k].stdout_readable
        /\ Configured(plProcs[n].popen_stdout, pl.stdout, SysStdout)

C2_Witness ==
    /\ plOp = "spawn_all" /\ plRes = "ok"
    /\ Len(pl.commands) = 3 /\ Len(plProcs) = 3
    /\ pl.stdin = File(ExtFd) /\ pl.stdout = INHERIT
    /\ plProcs[3].popen_stdin = File(PipeFd(plProcs[2].pid, "stdout"))
    /\ plProcs[3].popen_stdout = SysStdout

\* The launch of a command fails: Popen raises for its argument vector.
LaunchFails(command) == PopenOutcome(Tokens(command)) # "ok"

\* Stage k is the first whose launch fails, and nothing before its spawn()
\* call raises: the shared stderr and the pipeline's stdin are accepted by
\* the builder, no payload is written to the first stage and, when k is the
\* last stage, the pipeline's stdout is accepted.
FirstFailingStage(k) ==
    /\ k \in 1..Len(pl.commands)
    /\ LaunchFails(pl.commands[k])
    /\ \A j \in 1..(k - 1) : ~LaunchFails(pl.commands[j])
    /\ StderrSet(pl.stderr).ok /\ StdinSet(pl.stdin).ok
    /\ pl.stdin.t = "str" => ~Truthy(pl.stdin)
    /\ k = Len(pl.commands) => StdoutSet(pl.stdout).ok

\* C12: when the launch of stage k fails, spawn_all() raises that launch
\* error and returns no list; the stages before k were spawned, in order,
\* and are handed no signal; no later stage is spawned.
C12_PartialPipelineStaysLive ==
    (plOp = "spawn_all" /\ AreCommands(pl.commands)) =>
        \A k \in 1..MaxCmds :
            FirstFailingStage(k) =>
                /\ plRes = PopenOutcome(Tokens(pl.commands[k]))
                /\ plProcs = <<>>
                /\ Len(plMade) = k - 1
                /\ \A j \in 1..(k - 1) :
                      /\ plMade[j].exists /\ plMade[j].returncode = None
                      /\ plMade[j].args = Tokens(pl.commands[j])
                /\ plSent = {}

C12_Witness ==
    /\ plOp = "spawn_all" /\ plRes = "FileNotFoundError"
    /\ Len(pl.commands) = 3 /\ AreCommands(pl.commands)
    /\ FirstFailingStage(2)
    /\ Len(plMade) = 1 /\ plSent = {}

\* C17: the processes of one spawn_all() call, whether it returns or raises,
\* are spawned in the order of the commands: the k-th child created runs the
\* k-th command; from the second on its stdin is the stdout pipe of the
\* child created just before it, which was spawned with a piped stdout; and
\* no child's stdin is the pipe of a child created with it or after it.
C17_SpawnedInOrder ==
    (plOp = "spawn_all" /\ AreCommands(pl.commands)) =>
        \A k \in 1..Len(plMade) :
            /\ plMade[k].pid = FirstPid + (k - 1)
            /\ plMade[k].args = Tokens(pl.commands[k])
            /\ k >= 2 =>
                  /\ plMade[k - 1].popen_stdout = SubprocessPIPE
                  /\ plMade[k].popen_stdin = File(PipeFd(plMade[k - 1].pid, "stdout"))
            /\ \A later \in plMade[k].pid..(FirstPid + MaxCmds) :
                  \A stream \in {"stdin", "stdout", "stderr"} :
                      plMade[k].popen_stdin # File(PipeFd(later, stream))

C17_Witness ==
    /\ plOp = "spawn_all" /\ plRes = "FileNotFoundError"
    /\ Len(pl.commands) = 3 /\ AreCommands(pl.commands)
    /\ Len(plMade) = 2
    /\ plMade[2].pid = FirstPid + 1
    /\ plMade[2].popen_stdin = File(PipeFd(FirstPid, "stdout"))

\* A commands value that holds no command: the empty list.
ZeroCommands(value) == value.t = "list" /\ Len(value.w) = 0

Echo(heap, p) == [args |-> heap[p.args], env |-> heap[p.env], cwd |-> p.cwd]

\* C14: nothing done to the builder after spawn() changes what the args,
\* env and cwd properties of a process spawned before return, and no two
\* processes hold the same args list or the same env dict.
C14_SpawnTakesACopy ==
    /\ [][ \A k \in 1..Len(snProcs) : Echo(snHeap', snProcs'[k]) = Echo(snHeap, snProcs[k]) ]_vars
    /\ [](\A k, h \in 1..Len(snProcs) :
             k # h => snProcs[k].args # snProcs[h].args /\ snProcs[k].env # snProcs[h].env)

====
